---- MODULE Spec2Model ----
(***************************************************************************)
(* Barefoot.APIAdapter.Server: the API route table, its compilation to     *)
(* regular expressions (urlRegexp), the local dispatch of Backbone sync    *)
(* calls (matchRoute, sync) and the Express.JS request handlers that       *)
(* bindRoutes creates (createPlainRoutes, createContentRoutes).            *)
(*                                                                         *)
(* A JavaScript string is a sequence of one-character strings, so that     *)
(* templates are compiled and paths are matched character by character.    *)
(* A JavaScript value is a record [k, v]: k is its kind ("undef", "str",   *)
(* "obj", "fn", "err"), v the characters of a string or the identity of    *)
(* an object.                                                              *)
(***************************************************************************)
EXTENDS Integers, Sequences, FiniteSets, TLC

(***************************************************************************)
(* Bounds of the model.                                                    *)
(***************************************************************************)
\* the longest route sequence one group of apiRoutes declares
MaxRoutes == 2
\* the largest number of "/segment" pieces of a dispatched path
MaxSegs == 2

(***************************************************************************)
(* Values.                                                                 *)
(***************************************************************************)
Undefined == [k |-> "undef", v |-> <<>>]
Str(s) == [k |-> "str", v |-> s]
Obj(id) == [k |-> "obj", v |-> <<id>>]
Fn(id) == [k |-> "fn", v |-> <<id>>]
\* an Error object; code is the characters of its own httpStatusCode
\* property, <<>> when it has none
Err(id, code) == [k |-> "err", v |-> <<id>> \o code]

IsDefined(x) == x.k # "undef"

(***************************************************************************)
(* Characters.                                                             *)
(***************************************************************************)
LowerCase ==
  << "a","b","c","d","e","f","g","h","i","j","k","l","m",
     "n","o","p","q","r","s","t","u","v","w","x","y","z" >>
UpperCase ==
  << "A","B","C","D","E","F","G","H","I","J","K","L","M",
     "N","O","P","Q","R","S","T","U","V","W","X","Y","Z" >>
Digits == {"0","1","2","3","4","5","6","7","8","9"}

\* \w of a JavaScript regular expression
IsWord(c) ==
  \/ \E k \in 1..26 : LowerCase[k] = c \/ UpperCase[k] = c
  \/ c \in Digits
  \/ c = "_"

\* case folding of the "i" flag
Lower(c) ==
  IF \E k \in 1..26 : UpperCase[k] = c
  THEN LowerCase[CHOOSE k \in 1..26 : UpperCase[k] = c]
  ELSE c

(***************************************************************************)
(* Regular expressions.  A compiled expression is a flat sequence of       *)
(* elements [t, c, n]:                                                     *)
(*   "chr"    the literal character c                                      *)
(*   "opt"    (?: ... )? or ( ... )?  over the next n elements, greedy     *)
(*   "open"   start of capture group n        "close"  its end             *)
(*   "ns"     [^/]+?      "nsd"  [^/.]+?      "any"    .*                  *)
(* always anchored by ^ and $.                                             *)
(***************************************************************************)
Chr(c) == [t |-> "chr", c |-> c, n |-> 0]
Opt(n) == [t |-> "opt", c |-> "", n |-> n]
Open(g) == [t |-> "open", c |-> "", n |-> g]
Close(g) == [t |-> "close", c |-> "", n |-> g]
Cls(t) == [t |-> t, c |-> "", n |-> 0]

NoMatch == [ok |-> FALSE, caps |-> <<>>]

SameChar(ci, a, b) == IF ci THEN Lower(a) = Lower(b) ELSE a = b

\* the backtracking match of elements i.. of re against s from pos on;
\* caps are the captures so far, st the start of each open group
RECURSIVE Run(_, _, _, _, _, _, _)
Run(re, s, ci, i, pos, caps, st) ==
  IF i > Len(re)
  THEN IF pos = Len(s) + 1 THEN [ok |-> TRUE, caps |-> caps] ELSE NoMatch
  ELSE
    LET e == re[i] IN
    CASE e.t = "chr" ->
           IF pos <= Len(s) /\ SameChar(ci, e.c, s[pos])
           THEN Run(re, s, ci, i + 1, pos + 1, caps, st)
           ELSE NoMatch
      [] e.t = "opt" ->
           LET r == Run(re, s, ci, i + 1, pos, caps, st) IN
           IF r.ok THEN r ELSE Run(re, s, ci, i + 1 + e.n, pos, caps, st)
      [] e.t = "open" ->
           Run(re, s, ci, i + 1, pos, caps, [st EXCEPT ![e.n] = pos])
      [] e.t = "close" ->
           Run(re, s, ci, i + 1, pos,
               [caps EXCEPT ![e.n] = Str(SubSeq(s, st[e.n], pos - 1))], st)
      [] e.t \in {"ns", "nsd"} ->
           IF /\ pos <= Len(s)
              /\ s[pos] # "/"
              /\ (e.t = "nsd" => s[pos] # ".")
           THEN LET r == Run(re, s, ci, i + 1, pos + 1, caps, st) IN
                IF r.ok THEN r ELSE Run(re, s, ci, i, pos + 1, caps, st)
           ELSE NoMatch
      [] e.t = "any" ->
           IF pos <= Len(s)
           THEN LET r == Run(re, s, ci, i, pos + 1, caps, st) IN
                IF r.ok THEN r ELSE Run(re, s, ci, i + 1, pos, caps, st)
           ELSE Run(re, s, ci, i + 1, pos, caps, st)

\* exec of an engine that yields '' for a group that took no part in the
\* match
exec_EmptyForUnmatched(regexp, s) ==
  LET m == Run(regexp.re, s, regexp.ci, 1, 1,
               [g \in 1..regexp.groups |-> Undefined],
               [g \in 1..regexp.groups |-> 0])
  IN [m EXCEPT !.caps = [g \in 1..Len(m.caps) |->
                           IF m.caps[g] = Undefined THEN Str(<<>>)
                           ELSE m.caps[g]]]

\* RegExp.prototype.exec: the match array without m[0], or NoMatch (null)
exec(regexp, s) ==
  Run(regexp.re, s, regexp.ci, 1, 1,
      [g \in 1..regexp.groups |-> Undefined],
      [g \in 1..regexp.groups |-> 0])

(***************************************************************************)
(* urlRegexp                                                               *)
(***************************************************************************)
\* the last index of the run of word characters that starts at p
RECURSIVE WordEnd(_, _)
WordEnd(u, p) ==
  IF p + 1 <= Len(u) /\ IsWord(u[p + 1]) THEN WordEnd(u, p + 1) ELSE p

\* the chained replaces of urlRegexp from position p of u on: out is the
\* expression so far, keys the keys pushed so far, g the groups opened
RECURSIVE Compile(_, _, _, _, _)
Compile(u, p, out, keys, g) ==
  IF p > Len(u)
  THEN [re |-> out, keys |-> keys, groups |-> g]
  ELSE
    LET n == Len(u)
        slash == u[p] = "/"
        q1 == IF slash THEN p + 1 ELSE p
        format == q1 <= n /\ u[q1] = "."
        q2 == IF format THEN q1 + 1 ELSE q1
        isParam == q2 + 1 <= n /\ u[q2] = ":" /\ IsWord(u[q2 + 1])
    IN
    IF isParam
    THEN
      LET we == WordEnd(u, q2 + 1)
          name == SubSeq(u, q2 + 1, we)
          optional == we + 1 <= n /\ u[we + 1] = "?"
          q4 == IF optional THEN we + 2 ELSE we + 1
          star == q4 <= n /\ u[q4] = "*"
          q5 == IF star THEN q4 + 1 ELSE q4
          sl == IF slash THEN <<Chr("/")>> ELSE <<>>
          inner == (IF format THEN <<Chr(".")>> ELSE <<>>)
                   \o <<Open(g + 1), Cls(IF format THEN "nsd" ELSE "ns"),
                        Close(g + 1)>>
          body == IF optional
                  THEN <<Opt(Len(sl) + Len(inner))>> \o sl \o inner
                  ELSE sl \o inner
          tail == IF star
                  THEN <<Opt(6), Open(g + 2), Chr("/"), Open(g + 3),
                         Cls("any"), Close(g + 3), Close(g + 2)>>
                  ELSE <<>>
      IN Compile(u, q5, out \o body \o tail,
                 Append(keys, [name |-> name, optional |-> optional]),
                 IF star THEN g + 3 ELSE g + 1)
    ELSE
      IF u[p] = "*"
      THEN Compile(u, p + 1,
                   out \o <<Open(g + 1), Cls("any"), Close(g + 1)>>,
                   keys, g + 1)
      ELSE IF u[p] = "?" /\ Len(out) > 0 /\ out[Len(out)].t = "chr"
      THEN Compile(u, p + 1,
                   SubSeq(out, 1, Len(out) - 1) \o <<Opt(1), out[Len(out)]>>,
                   keys, g)
      ELSE Compile(u, p + 1, Append(out, Chr(u[p])), keys, g)

urlRegexp(url, sensitive, strict) ==
  LET c == Compile(url \o (IF strict THEN <<>> ELSE <<"/", "?">>),
                   1, <<>>, <<>>, 0)
  IN [regexp |-> [re |-> c.re, groups |-> c.groups, ci |-> ~sensitive],
      keys |-> c.keys]

(***************************************************************************)
(* underscore helpers                                                      *)
(***************************************************************************)
\* _.uniq: the first occurrence of every value, in order
RECURSIVE Uniq(_)
Uniq(s) ==
  IF s = <<>> THEN <<>>
  ELSE LET r == Uniq(SubSeq(s, 1, Len(s) - 1))
           x == s[Len(s)]
       IN IF \E j \in 1..Len(r) : r[j] = x THEN r ELSE Append(r, x)

\* _.union(a, b, ...): the arguments concatenated, then _.uniq
union(s) == Uniq(s)

\* a params object: idx holds the values pushed (an array's elements),
\* named the properties set by name, in insertion order
EmptyObject == [isArray |-> FALSE, idx |-> <<>>, named |-> <<>>]
EmptyArray == [isArray |-> TRUE, idx |-> <<>>, named |-> <<>>]

\* params[name] = val
SetProp(params, name, val) ==
  IF \E j \in 1..Len(params.named) : params.named[j].name = name
  THEN [params EXCEPT !.named =
          [j \in 1..Len(params.named) |->
             IF params.named[j].name = name
             THEN [name |-> name, val |-> val]
             ELSE params.named[j]]]
  ELSE [params EXCEPT !.named = Append(@, [name |-> name, val |-> val])]

\* _.values(params): index properties first, then the named ones
values(params) ==
  params.idx \o [j \in 1..Len(params.named) |-> params.named[j].val]

\* the truthiness of a value
IsTruthy(x) == x.k # "undef" /\ ~(x.k = "str" /\ x.v = <<>>)

(***************************************************************************)
(* getAPIPrefix, prepareAPIUri                                             *)
(***************************************************************************)
DefaultPrefix == <<"/", "a", "p", "i">>

\* both callers write getAPIPrefix() without a receiver, so that "this"
\* is the global object, which has no apiPrefix property
GlobalObject == [apiPrefix |-> Undefined]

getAPIPrefix(this) ==
  IF IsTruthy(this.apiPrefix) THEN this.apiPrefix.v ELSE DefaultPrefix

\* path.join of two strings without "." and ".." segments: joined by "/",
\* runs of "/" collapsed
RECURSIVE Collapse(_)
Collapse(s) ==
  IF Len(s) < 2 THEN s
  ELSE IF s[1] = "/" /\ s[2] = "/" THEN Collapse(Tail(s))
  ELSE <<s[1]>> \o Collapse(Tail(s))

pathJoin(a, b) == Collapse(a \o <<"/">> \o b)

prepareAPIUri(routeUri) == pathJoin(getAPIPrefix(GlobalObject), routeUri)

(***************************************************************************)
(* matchRoute                                                              *)
(***************************************************************************)
\* no alphabet of the model holds "%": nothing to decode
decodeURIComponent(s) == s

\* the loop over the captures m[i], i = from .. m.length - 1; acc.thrown
\* records the TypeError of params.push on an object that is no array
RECURSIVE Extract(_, _, _, _)
Extract(keys, caps, i, acc) ==
  IF i > Len(caps) \/ acc.thrown THEN acc
  ELSE
    LET val == IF caps[i].k = "str"
               THEN Str(decodeURIComponent(caps[i].v))
               ELSE caps[i]
    IN
    IF i <= Len(keys)
    THEN Extract(keys, caps, i + 1,
                 [acc EXCEPT !.params = SetProp(@, keys[i].name, val)])
    ELSE IF acc.params.isArray
    THEN Extract(keys, caps, i + 1,
                 [acc EXCEPT !.params.idx = Append(@, val)])
    ELSE [acc EXCEPT !.thrown = TRUE]

\* _.every(routes, iterator) from entry i on: the iteration goes on while
\* the iterator returns true and ends at the first entry returning false
RECURSIVE Every(_, _, _, _)
Every(routes, url, i, acc) ==
  IF i > Len(routes) \/ acc.thrown THEN acc
  ELSE
    LET route == routes[i]
        m == exec(route.regexp, url)
    IN
    IF m.ok
    THEN Every(routes, url, i + 1,
               Extract(route.keys, m.caps, 1, [acc EXCEPT !.matched = i]))
    ELSE acc

\* matchRoute with "matchedRoute = route" moved before the test of m
matchRoute_AssignedBeforeTest(method, url, table, params) ==
  LET r == Every(table[method], url, 1,
                 [matched |-> 0, params |-> params, thrown |-> FALSE])
  IN IF r.matched = 0 /\ Len(table[method]) > 0
     THEN [r EXCEPT !.matched = 1]
     ELSE r

\* matched is the index of matchedRoute in apiRoutes[method], 0 for
\* undefined; params is the params argument as matchRoute leaves it
matchRoute(method, url, table, params) ==
  Every(table[method], url, 1,
        [matched |-> 0, params |-> params, thrown |-> FALSE])

(***************************************************************************)
(* The route table and the requests                                        *)
(***************************************************************************)
Groups == {"get", "post", "put", "patch", "del", "delete"}
Verbs == {"get", "post", "put", "patch", "delete"}
Methods == {"create", "update", "patch", "delete", "read"}

methodMap(method) ==
  CASE method = "create" -> "post"
    [] method = "update" -> "put"
    [] method = "patch" -> "patch"
    [] method = "delete" -> "delete"
    [] method = "read" -> "get"

\* the route templates an application declares
Templates ==
  { <<"/", "c">>,
    <<"/", ":", "a", "/", ":", "b">>,
    <<"/", "c", "/", ":", "i", "?">>,
    <<"/", "c", "/", "*">> }

\* the keys of one group, in insertion order: distinct templates
RouteSeqs ==
  UNION { { f \in [1..n -> Templates] :
              \A j, k \in 1..n : j # k => f[j] # f[k] } : n \in 0..MaxRoutes }

\* the segments of the paths dispatched
Segs == { <<"c">>, <<"1">> }

RECURSIVE PathsOf(_)
PathsOf(n) ==
  IF n = 0 THEN { <<>> }
  ELSE { p \o <<"/">> \o s : p \in PathsOf(n - 1), s \in Segs }

Upper(c) ==
  IF \E k \in 1..26 : LowerCase[k] = c
  THEN UpperCase[CHOOSE k \in 1..26 : LowerCase[k] = c]
  ELSE c

\* every path of up to MaxSegs segments, as it is, in upper case, and
\* with a trailing slash
Paths ==
  UNION { { p, [j \in 1..Len(p) |-> Upper(p[j])], p \o <<"/">> } :
            p \in UNION { PathsOf(n) : n \in 1..MaxSegs } }

ConfiguredPrefix == <<"/", "v">>
Prefixes == { <<>>, DefaultPrefix, ConfiguredPrefix }

Urls == { Str(pre \o p) : pre \in Prefixes, p \in Paths }

NoHandler == <<"none", 0>>

(***************************************************************************)
(* Handlers.  A handler is application code: what it does when invoked is  *)
(* an input of the dispatch.  It calls the continuations it was given      *)
(* (pre), then returns or throws (end).                                    *)
(***************************************************************************)
\* the most continuation calls a handler makes before it returns or throws
MaxCalls == 1

CallSeqs == UNION { [1..n -> {"success", "error"}] : n \in 0..MaxCalls }

Behaviours == [pre : CallSeqs, end : {"return", "throw", "throwStatus"}]

NoBehaviour == [pre |-> <<>>, end |-> "none"]

ApiResult == Obj("apiResult")
Failure == Err("failure", <<>>)
ThrownBy(end) ==
  IF end = "throwStatus" THEN Err("thrown", <<"404">>) ELSE Err("thrown", <<>>)

\* callback.apply(context, args) without the try and catch around it
TryApply_Uncaught(beh) ==
  [j \in 1..Len(beh.pre) |->
     [f |-> beh.pre[j], by |-> "handler", code |-> Undefined,
      arg |-> IF beh.pre[j] = "success" THEN ApiResult ELSE Failure]]

\* try { callback.apply(context, args) } catch(err) { error(err) }: the
\* calls of the success and error functions, in order
TryApply(beh) ==
  [j \in 1..Len(beh.pre) |->
     [f |-> beh.pre[j], by |-> "handler", code |-> Undefined,
      arg |-> IF beh.pre[j] = "success" THEN ApiResult ELSE Failure]]
  \o (IF beh.end \in {"throw", "throwStatus"}
      THEN <<[f |-> "error", by |-> "catch", code |-> Undefined,
              arg |-> ThrownBy(beh.end)]>>
      ELSE <<>>)

\* the arguments of the calls of f among conts
RECURSIVE ArgsOf(_, _)
ArgsOf(conts, f) ==
  IF conts = <<>> THEN <<>>
  ELSE (IF Head(conts).f = f THEN <<Head(conts).arg>> ELSE <<>>)
       \o ArgsOf(Tail(conts), f)

\* what a dispatch is observed to do
NoDispatch ==
  [kind |-> "none", method |-> "", url |-> Undefined, path |-> Undefined,
   body |-> Undefined, query |-> Undefined,
   hasSuccess |-> FALSE, hasError |-> FALSE, beh |-> NoBehaviour,
   group |-> "", handler |-> NoHandler, invoked |-> 0, args |-> <<>>,
   conts |-> <<>>, optSuccess |-> <<>>, optError |-> <<>>, sent |-> <<>>,
   thrown |-> ""]

(***************************************************************************)
(* sync                                                                    *)
(***************************************************************************)
\* url.substr(0, apiPrefix.length) === apiPrefix ? url.substr(...) : url
StripPrefix(url, apiPrefix) ==
  IF /\ Len(url) >= Len(apiPrefix)
     /\ SubSeq(url, 1, Len(apiPrefix)) = apiPrefix
  THEN SubSeq(url, Len(apiPrefix) + 1, Len(url))
  ELSE url

\* sync with the callback applied inside the iterator of matchRoute, once
\* for every entry that matches
sync_AppliedPerMatch(method, model, options, this, beh) ==
  LET url == IF IsTruthy(options.url) THEN options.url ELSE model.url
      apiPrefix == getAPIPrefix(GlobalObject)
      httpMethod == methodMap(method)
      call == [NoDispatch EXCEPT
                 !.kind = "sync", !.method = method, !.url = url,
                 !.body = model.body,
                 !.hasSuccess = options.success, !.hasError = options.error]
  IN
  IF ~IsDefined(url)
  THEN [call EXCEPT !.thrown = "NoUrl"]
  ELSE
    LET path == StripPrefix(url.v, apiPrefix)
        r == matchRoute(httpMethod, path, this.apiRoutes, EmptyObject)
        looked == [call EXCEPT !.path = Str(path), !.group = httpMethod]
    IN
    IF r.thrown
    THEN [looked EXCEPT !.thrown = "TypeError"]
    ELSE IF r.matched = 0
    THEN [looked EXCEPT !.thrown = "RouteNotFound"]
    ELSE
      LET args == union(<<Fn("success"), Fn("error")>> \o values(r.params))
          conts == TryApply(beh)
      IN [looked EXCEPT
            !.handler = this.apiRoutes[httpMethod][r.matched].callback,
            !.invoked = r.matched, !.beh = beh, !.args = args, !.conts = conts,
            !.optSuccess = IF options.success
                           THEN ArgsOf(conts, "success") ELSE <<>>,
            !.optError = IF options.error
                         THEN ArgsOf(conts, "error") ELSE <<>>]

sync(method, model, options, this, beh) ==
  LET url == IF IsTruthy(options.url) THEN options.url ELSE model.url
      apiPrefix == getAPIPrefix(GlobalObject)
      httpMethod == methodMap(method)
      call == [NoDispatch EXCEPT
                 !.kind = "sync", !.method = method, !.url = url,
                 !.body = model.body,
                 !.hasSuccess = options.success, !.hasError = options.error]
  IN
  IF ~IsDefined(url)
  THEN [call EXCEPT !.thrown = "NoUrl"]
  ELSE
    LET path == StripPrefix(url.v, apiPrefix)
        r == matchRoute(httpMethod, path, this.apiRoutes, EmptyObject)
        looked == [call EXCEPT !.path = Str(path), !.group = httpMethod]
    IN
    IF r.thrown
    THEN [looked EXCEPT !.thrown = "TypeError"]
    ELSE IF r.matched = 0
    THEN [looked EXCEPT !.thrown = "RouteNotFound"]
    ELSE
      LET args == union(<<Fn("success"), Fn("error")>> \o values(r.params))
          conts == TryApply(beh)
      IN [looked EXCEPT
            !.handler = this.apiRoutes[httpMethod][r.matched].callback,
            !.invoked = 1, !.beh = beh, !.args = args, !.conts = conts,
            !.optSuccess = IF options.success
                           THEN ArgsOf(conts, "success") ELSE <<>>,
            !.optError = IF options.error
                         THEN ArgsOf(conts, "error") ELSE <<>>]

(***************************************************************************)
(* createPlainRoutes, createContentRoutes, bindRoutes                      *)
(***************************************************************************)
\* success that ignores its httpStatusCode argument
Send_StatusArgumentDropped(c) ==
  IF c.f = "success"
  THEN [status |-> "200", body |-> c.arg]
  ELSE IF c.arg.k = "err" /\ Len(c.arg.v) = 2
  THEN [status |-> c.arg.v[2], body |-> Undefined]
  ELSE [status |-> "500", body |-> Undefined]

\* res.send(...) of one call of the success or error function of a request
Send(c) ==
  IF c.f = "success"
  THEN [status |-> IF IsTruthy(c.code) THEN c.code.v[1] ELSE "200",
        body |-> c.arg]
  ELSE IF c.arg.k = "err" /\ Len(c.arg.v) = 2
  THEN [status |-> c.arg.v[2], body |-> Undefined]
  ELSE [status |-> "500", body |-> Undefined]

\* the function(req, res) that createPlainRoutes (content = FALSE) and
\* createContentRoutes (content = TRUE) hand to the binder
requestHandler(route, req, beh) ==
  LET args == union(<<Fn("success"), Fn("error")>> \o values(req.params)
                    \o (IF route.content THEN <<req.body>> ELSE <<>>)
                    \o <<req.query>>)
      conts == TryApply(beh)
  IN [NoDispatch EXCEPT
        !.kind = "net", !.method = req.verb, !.url = Str(req.path),
        !.path = Str(req.path), !.body = req.body, !.query = req.query,
        !.group = route.group, !.handler = route.callback, !.invoked = 1,
        !.beh = beh, !.args = args, !.conts = conts,
        !.sent = [j \in 1..Len(conts) |-> Send(conts[j])]]

\* binder.call(app, apiUri, handler) for every route of a group: Express
\* compiles the URI as urlRegexp does, case-insensitive and not strict
createRoutes(routes, group, content) ==
  [j \in 1..Len(routes) |->
     LET apiUri == prepareAPIUri(routes[j].route)
         c == urlRegexp(apiUri, FALSE, FALSE)
     IN [path |-> apiUri, regexp |-> c.regexp, keys |-> c.keys,
         callback |-> routes[j].callback, content |-> content,
         group |-> group]]

createPlainRoutes(routes, group) == createRoutes(routes, group, FALSE)

createContentRoutes(routes, group) == createRoutes(routes, group, TRUE)

\* the object that replaces apiRoutes[method][route]
CompiledEntry(e) ==
  LET c == urlRegexp(e.route, TRUE, TRUE)
  IN [e EXCEPT !.regexp = c.regexp, !.keys = c.keys]

\* Express: the first route of the verb whose expression matches the path
\* handles the request; 0 when none does
RECURSIVE FirstMatch(_, _, _)
FirstMatch(routes, path, i) ==
  IF i > Len(routes) THEN 0
  ELSE IF exec(routes[i].regexp, path).ok THEN i
  ELSE FirstMatch(routes, path, i + 1)

\* Express: req.params of the matching route, an array with named
\* properties
ReqParams(route, path) ==
  Extract(route.keys, exec(route.regexp, path).caps, 1,
          [matched |-> 0, params |-> EmptyArray, thrown |-> FALSE]).params

(***************************************************************************)
(* State                                                                   *)
(***************************************************************************)
VARIABLES
  apiRoutes,   \* this.apiRoutes: group -> its entries, in insertion order
  apiPrefix,   \* this.apiPrefix of the adapter
  app,         \* the Express routes: verb -> the routes bound, in order
  phase,       \* "setup" before bindRoutes, "bound" after
  last,        \* the last dispatch, as observed
  reqs,        \* the requests and sync calls in flight, by id
  running,     \* the id whose handler is on the call stack, 0 for none
  selfRes      \* self.res of the router, the id of a request, 0 for none

vars == <<apiRoutes, apiPrefix, app, phase, last, reqs, running, selfRes>>

\* what the dispatches that run to completion leave alone
inflight == <<reqs, running, selfRes>>

MaxRequests == 2
MaxLater == 2

Ids == 1..MaxRequests

Idle == [kind |-> "idle", callbacks |-> FALSE, out |-> <<>>]

NoRegexp == [re |-> <<>>, groups |-> 0, ci |-> FALSE]

\* the entries of one group as the application declares them; the group
\* of the DELETE routes is "del", the key bindRoutes reads
Declared(group, rs) ==
  [j \in 1..Len(rs) |->
     [route |-> rs[j], callback |-> <<group, j>>,
      regexp |-> NoRegexp, keys |-> <<>>]]

Init ==
  /\ \E rs \in RouteSeqs :
       apiRoutes = [g \in Groups |->
                      IF g = "delete" THEN <<>> ELSE Declared(g, rs)]
  /\ apiPrefix \in {Undefined, Str(ConfiguredPrefix)}
  /\ app = [v \in Verbs |-> <<>>]
  /\ phase = "setup"
  /\ last = NoDispatch
  /\ reqs = [id \in Ids |-> Idle]
  /\ running = 0
  /\ selfRes = 0

bindRoutes ==
  /\ phase = "setup"
  /\ app' = [v \in Verbs |->
               CASE v = "get" -> createPlainRoutes(apiRoutes["get"], "get")
                 [] v = "post" ->
                      createContentRoutes(apiRoutes["post"], "post")
                 [] v = "put" -> createContentRoutes(apiRoutes["put"], "put")
                 [] v = "patch" ->
                      createContentRoutes(apiRoutes["patch"], "patch")
                 [] v = "delete" ->
                      createPlainRoutes(apiRoutes["del"], "del")]
  /\ apiRoutes' = [g \in Groups |->
                     [j \in 1..Len(apiRoutes[g]) |->
                        CompiledEntry(apiRoutes[g][j])]]
  /\ phase' = "bound"
  /\ UNCHANGED <<apiPrefix, last, inflight>>

\* matchRoute with the entries taken off the group as they are tried
RoutesAfter_Shifted(method, table) ==
  [table EXCEPT ![method] = IF @ = <<>> THEN @ ELSE Tail(@)]

\* this.apiRoutes after a sync call: matchRoute reads routes, route.keys
\* and route.regexp (patterns without the g flag, which exec leaves as
\* they are) and assigns to params and matchedRoute alone; sync assigns to
\* locals alone
RoutesAfter(method, table) == table

\* options.url and the url of the model of a sync call
UrlInputs ==
  { [options |-> Undefined, model |-> u] : u \in Urls \cup {Undefined} }
  \cup { [options |-> Str(DefaultPrefix \o <<"/", "c">>), model |-> u] :
            u \in {Undefined, Str(DefaultPrefix \o <<"/", "1">>)} }

\* a Backbone model or collection is synced on the server, with options
\* that hold both callbacks or none; what the handler does is drawn only
\* when a handler is invoked
Sync ==
  /\ phase = "bound"
  /\ last.kind = "none"
  /\ \E method \in Methods, urls \in UrlInputs, callbacks \in BOOLEAN :
       LET model == [url |-> urls.model, body |-> Obj("model")]
           options == [url |-> urls.options, success |-> callbacks,
                       error |-> callbacks]
           this == [apiRoutes |-> apiRoutes, apiPrefix |-> apiPrefix]
           invoked == sync(method, model, options, this, NoBehaviour).invoked
       IN /\ \E beh \in IF invoked = 1 THEN Behaviours ELSE {NoBehaviour} :
               last' = sync(method, model, options, this, beh)
          /\ apiRoutes' = RoutesAfter(methodMap(method), apiRoutes)
  /\ UNCHANGED <<apiPrefix, app, phase, inflight>>

\* Express receives a request
Request ==
  /\ phase = "bound"
  /\ last.kind = "none"
  /\ \E verb \in Verbs, p \in Urls :
       LET k == FirstMatch(app[verb], p.v, 1)
           req == [verb |-> verb, path |-> p.v, body |-> Obj("body"),
                   query |-> Obj("query"),
                   params |-> IF k = 0 THEN EmptyArray
                              ELSE ReqParams(app[verb][k], p.v)]
       IN
       IF k = 0
       THEN last' = [NoDispatch EXCEPT
                       !.kind = "net", !.method = verb, !.url = p,
                       !.path = p, !.body = req.body, !.query = req.query]
       ELSE \E beh \in Behaviours :
              last' = requestHandler(app[verb][k], req, beh)
  /\ UNCHANGED <<apiRoutes, apiPrefix, app, phase, inflight>>

\* the dispatch is over: control is back in the event loop
Return ==
  /\ last.kind # "none"
  /\ last' = NoDispatch
  /\ UNCHANGED <<apiRoutes, apiPrefix, app, phase, inflight>>

Next == bindRoutes \/ Sync \/ Request \/ Return

Spec == Init /\ [][Next]_vars

(***************************************************************************)
(* Handlers that finish asynchronously                                     *)
(***************************************************************************)
\* a number
Num(n) == [k |-> "num", v |-> <<n>>]

\* the calls a handler makes of the success and error functions it was
\* given: success(apiResult), success(apiResult, 201), error(err),
\* error(err with httpStatusCode 404)
HandlerCalls ==
  { [f |-> "success", arg |-> ApiResult, code |-> Undefined],
    [f |-> "success", arg |-> ApiResult, code |-> Num("201")],
    [f |-> "error", arg |-> Failure, code |-> Undefined],
    [f |-> "error", arg |-> Err("failure", <<"404">>), code |-> Undefined] }

\* this.render(view) of a route callback of the router
RenderCall == [f |-> "render", arg |-> Obj("view"), code |-> Undefined]

\* the error function of sync calling options.success
Forward_ErrorToSuccess(options, c) ==
  IF options.success
  THEN <<[f |-> "success", arg |-> c.arg]>>
  ELSE <<>>

\* the success and error functions of sync: the calls of options.success
\* and options.error that one call of them makes
Forward(options, c) ==
  IF c.f = "success"
  THEN (IF options.success
        THEN <<[f |-> "success", arg |-> c.arg]>> ELSE <<>>)
  ELSE (IF options.error
        THEN <<[f |-> "error", arg |-> c.arg]>> ELSE <<>>)

\* the calls made so far by all handlers
Made ==
  LET RECURSIVE Sum(_)
      Sum(S) == IF S = {} THEN 0
                ELSE LET id == CHOOSE x \in S : TRUE
                     IN Len(reqs[id].out) + Sum(S \ {id})
  IN Sum(Ids)

ApiUrl == DefaultPrefix \o <<"/", "c">>

\* one route, '/c', in every group
InitAsync ==
  /\ apiRoutes = [g \in Groups |->
                    IF g = "delete" THEN <<>>
                    ELSE Declared(g, << <<"/", "c">> >>)]
  /\ apiPrefix = Undefined
  /\ app = [v \in Verbs |-> <<>>]
  /\ phase = "setup"
  /\ last = NoDispatch
  /\ reqs = [id \in Ids |-> Idle]
  /\ running = 0
  /\ selfRes = 0

\* Express receives GET /api/c and calls the function(req, res) bound for
\* it, which applies the callback of the route
Arrive(id) ==
  /\ phase = "bound"
  /\ running = 0
  /\ reqs[id].kind = "idle"
  /\ FirstMatch(app["get"], ApiUrl, 1) = 1
  /\ reqs' = [reqs EXCEPT ![id].kind = "api"]
  /\ running' = id
  /\ UNCHANGED <<apiRoutes, apiPrefix, app, phase, last, selfRes>>

\* sync('read', model, options) with the url /api/c applies the callback
\* of the route
Fetch(id) ==
  /\ phase = "bound"
  /\ running = 0
  /\ reqs[id].kind = "idle"
  /\ \E callbacks \in BOOLEAN :
       LET model == [url |-> Str(ApiUrl), body |-> Obj("model")]
           options == [url |-> Undefined, success |-> callbacks,
                       error |-> callbacks]
           this == [apiRoutes |-> apiRoutes, apiPrefix |-> apiPrefix]
       IN /\ sync("read", model, options, this, NoBehaviour).invoked = 1
          /\ reqs' = [reqs EXCEPT ![id].kind = "sync",
                                  ![id].callbacks = callbacks]
  /\ running' = id
  /\ UNCHANGED <<apiRoutes, apiPrefix, app, phase, last, selfRes>>

\* the function(req, res) that route hands to app.get: self.res = res,
\* then the callback of the route is applied
routeHandler(id) ==
  /\ phase = "bound"
  /\ running = 0
  /\ reqs[id].kind = "idle"
  /\ reqs' = [reqs EXCEPT ![id].kind = "view"]
  /\ selfRes' = id
  /\ running' = id
  /\ UNCHANGED <<apiRoutes, apiPrefix, app, phase, last>>

\* the handler of id, on the call stack or resumed later from the event
\* loop, calls the success or error function it was given
Call(id) ==
  /\ reqs[id].kind \in {"api", "sync"}
  /\ running \in {0, id}
  /\ Made < MaxLater
  /\ \E c \in HandlerCalls :
       LET options == [success |-> reqs[id].callbacks,
                       error |-> reqs[id].callbacks]
           done == IF reqs[id].kind = "api"
                   THEN [call |-> c, late |-> running = 0, res |-> id,
                         sent |-> <<Send(c)>>]
                   ELSE [call |-> c, late |-> running = 0, res |-> 0,
                         sent |-> Forward(options, c)]
       IN reqs' = [reqs EXCEPT ![id].out = Append(@, done)]
  /\ UNCHANGED <<apiRoutes, apiPrefix, app, phase, last, running, selfRes>>

\* render: the callback of id, on the call stack or resumed later, calls
\* this.render(view), which sends the page with this.res.send
render(id) ==
  /\ reqs[id].kind = "view"
  /\ running \in {0, id}
  /\ Made < MaxLater
  /\ reqs' = [reqs EXCEPT ![id].out =
                Append(@, [call |-> RenderCall, late |-> running = 0,
                           res |-> selfRes,
                           sent |-> <<[status |-> "200",
                                       body |-> Obj("html")]>>])]
  /\ UNCHANGED <<apiRoutes, apiPrefix, app, phase, last, running, selfRes>>

\* the callback returns, and with it the request handler or sync: control
\* is back in the event loop
Unwind(id) ==
  /\ running = id
  /\ running' = 0
  /\ UNCHANGED <<apiRoutes, apiPrefix, app, phase, last, reqs, selfRes>>

NextAsync ==
  \/ bindRoutes
  \/ \E id \in Ids : Arrive(id)
  \/ \E id \in Ids : Fetch(id)
  \/ \E id \in Ids : routeHandler(id)
  \/ \E id \in Ids : Call(id)
  \/ \E id \in Ids : render(id)
  \/ \E id \in Ids : Unwind(id)

SpecAsync == InitAsync /\ [][NextAsync]_vars

(***************************************************************************)
(* Vocabulary of the properties                                            *)
(***************************************************************************)
\* the last dispatch is a local one that came to look a path up
LocalLookup == last.kind = "sync" /\ IsDefined(last.path)

\* the entries registered for the verb of the last local dispatch
Entries == apiRoutes[last.group]

\* the indices of the entries whose own pattern matches the path
Matching ==
  { j \in 1..Len(Entries) : exec(Entries[j].regexp, last.path.v).ok }

Earliest(S) == CHOOSE j \in S : \A k \in S : j <= k

Throws == {"throw", "throwStatus"}

\* the number of calls of f among conts
Count(conts, f) == Len(ArgsOf(conts, f))

\* the lookup did not fail on a capture without a key (the subject of C10)
CapturesStored == last.thrown # "TypeError"

(***************************************************************************)
(* C1.  Local dispatch (sync -> matchRoute): whenever two or more entries  *)
(* registered for the verb match the dispatched path, the handler invoked  *)
(* is the one of the earliest-registered matching entry.                   *)
(* The code breaks it: _.every goes on after a match, so that the last     *)
(* entry of the leading run of matching entries is the one returned.       *)
(***************************************************************************)
C1_EarliestMatchingEntryWins ==
  (LocalLookup /\ CapturesStored /\ Cardinality(Matching) >= 2)
    => last.handler = Entries[Earliest(Matching)].callback

(***************************************************************************)
(* C2.  Local dispatch scans the whole entry sequence of the verb: if any  *)
(* entry matches the path, a handler is invoked and the dispatch does not  *)
(* fail with route-not-found, however many earlier entries do not match.   *)
(* The code breaks it: _.every ends at the first entry that does not       *)
(* match.                                                                  *)
(***************************************************************************)
C2_WholeSequenceScanned ==
  (LocalLookup /\ CapturesStored /\ Matching # {})
    => last.invoked = 1 /\ last.thrown # "RouteNotFound"

(***************************************************************************)
(* C3.  A local sync call for a (verb, path) that no registered entry      *)
(* matches invokes no handler, never calls options.success, and surfaces   *)
(* the not-found condition to the caller: sync throws the "Could not       *)
(* resolve API route" error.                                               *)
(***************************************************************************)
C3_UnmatchedIsNotFound ==
  (LocalLookup /\ Matching = {})
    => /\ last.invoked = 0
       /\ last.handler = NoHandler
       /\ last.optSuccess = <<>>
       /\ last.thrown = "RouteNotFound"

\* an unmatched path is dispatched against a group that has entries, by a
\* caller that supplied both callbacks
C3_Witness ==
  /\ LocalLookup
  /\ Matching = {}
  /\ Len(Entries) >= 1
  /\ last.hasSuccess /\ last.hasError
  /\ last.thrown = "RouteNotFound"

(***************************************************************************)
(* C4.  Every dispatch (network plain route, network content route, local  *)
(* sync) whose handler throws synchronously has its error continuation     *)
(* invoked exactly once, whatever the handler did before it threw; on the  *)
(* network the response is finished with status 500, or with the           *)
(* httpStatusCode of the thrown object.                                    *)
(* The code breaks it: the catch calls error(err) without regard to the    *)
(* calls the handler has made itself, so a handler that calls error and    *)
(* then throws has the error continuation invoked twice.                   *)
(***************************************************************************)
C4_ThrowReportedExactlyOnce ==
  (last.invoked = 1 /\ last.beh.end \in Throws)
    => /\ Count(last.conts, "error") = 1
       /\ last.kind = "net" =>
            last.sent[Len(last.sent)].status =
              (IF last.beh.end = "throwStatus" THEN "404" ELSE "500")

(***************************************************************************)
(* C5.  As claimed: every failure of a local sync call (no url on the      *)
(* model nor in the options, no matching route, a handler that throws) is  *)
(* reported by a call of the options.error the caller supplied, and no     *)
(* exception propagates out of sync.                                       *)
(***************************************************************************)
C5_EveryFailureToOptionsError ==
  (/\ last.kind = "sync"
   /\ last.hasError
   /\ CapturesStored
   /\ \/ ~IsDefined(last.url)
      \/ LocalLookup /\ Matching = {}
      \/ last.invoked = 1 /\ last.beh.end \in Throws)
    => last.thrown = "" /\ last.optError # <<>>

(***************************************************************************)
(* C5, as the code has it: a handler that throws is reported by a call of  *)
(* options.error (when the caller supplied one) with the thrown object,    *)
(* and nothing propagates out of sync; a missing url and a path that no    *)
(* registered entry matches are reported by an Error thrown out of sync    *)
(* to its caller, and options.error is not called.                         *)
(***************************************************************************)
C5_ThrowsExceptForHandlerFaults ==
  last.kind = "sync" =>
    /\ ~IsDefined(last.url) =>
         last.thrown = "NoUrl" /\ last.optError = <<>> /\ last.invoked = 0
    /\ (LocalLookup /\ Matching = {}) =>
         last.thrown = "RouteNotFound" /\ last.optError = <<>>
    /\ (last.invoked = 1 /\ last.beh.end \in Throws) =>
         /\ last.thrown = ""
         /\ last.hasError =>
              /\ last.optError # <<>>
              /\ last.optError[Len(last.optError)] = ThrownBy(last.beh.end)
         /\ ~last.hasError => last.optError = <<>>

\* a caller that supplied options.error syncs a model without url
C5_Witness ==
  /\ last.kind = "sync"
  /\ last.hasError
  /\ ~IsDefined(last.url)
  /\ last.thrown = "NoUrl"

(***************************************************************************)
(* C6.  A local sync call with the method create, update or patch whose    *)
(* handler is invoked reaches a handler of the content-bearing verb, and   *)
(* the argument list of the handler holds the body of the model after the  *)
(* extracted parameters.                                                   *)
(* The code breaks it: sync builds the arguments from success, error and   *)
(* the parameters alone.                                                   *)
(***************************************************************************)
C6_BodyForwardedBySync ==
  (/\ last.kind = "sync"
   /\ last.method \in {"create", "update", "patch"}
   /\ last.invoked = 1)
    => /\ last.handler[1] \in {"post", "put", "patch"}
       /\ Len(last.args) >= 3
       /\ last.args[Len(last.args)] = last.body

\* the fixed table of the persistence verbs: the HTTP verb of each
HttpVerb(method) ==
  CASE method = "create" -> "post"
    [] method = "read" -> "get"
    [] method = "update" -> "put"
    [] method = "patch" -> "patch"
    [] method = "delete" -> "delete"

(***************************************************************************)
(* C7.  For each of the five persistence verbs, a local sync call looks    *)
(* its route up in the route group that bindRoutes binds to the network    *)
(* for the mapped HTTP verb.                                               *)
(* The code breaks it for delete: bindRoutes binds apiRoutes.del to        *)
(* DELETE, methodMap sends sync to apiRoutes['delete'].                    *)
(***************************************************************************)
C7_SameGroupAsBound ==
  LocalLookup =>
    \A j \in 1..Len(app[HttpVerb(last.method)]) :
      app[HttpVerb(last.method)][j].group = last.group

\* the prefix as configured
PrefixAsConfigured ==
  IF IsTruthy(apiPrefix) THEN apiPrefix.v ELSE <<"/", "a", "p", "i">>

(***************************************************************************)
(* C8.  The API prefix is the apiPrefix of the adapter when one is set     *)
(* and '/api' otherwise; that prefix is prepended to every template bound  *)
(* to the network and stripped from the url of every local sync call       *)
(* before matching.                                                        *)
(* The code breaks it: getAPIPrefix is called without receiver, so that    *)
(* this.apiPrefix is never the one of the adapter and the prefix is always *)
(* '/api'.                                                                 *)
(***************************************************************************)
C8_ConfiguredPrefixUsed ==
  /\ \A v \in Verbs : \A j \in 1..Len(app[v]) :
       app[v][j].path =
         PrefixAsConfigured \o apiRoutes[app[v][j].group][j].route
  /\ LocalLookup =>
       last.path.v = StripPrefix(last.url.v, PrefixAsConfigured)

\* the captures of the pattern of the invoked entry on the dispatched path
CapturesOfInvoked ==
  LET j == last.handler[2]
      regexp == IF last.kind = "sync" THEN Entries[j].regexp
                ELSE app[last.method][j].regexp
  IN exec(regexp, last.path.v).caps

\* what the transport forwards after the parameters
Forwarded ==
  IF last.kind = "sync" THEN <<>>
  ELSE IF last.method \in {"post", "put", "patch"}
  THEN <<last.body, last.query>>
  ELSE <<last.query>>

(***************************************************************************)
(* C9.  For every matched dispatch, network or local, the argument list    *)
(* of the handler is success, error, then exactly one argument per         *)
(* parameter of the template, in the order of declaration (undefined for   *)
(* an optional parameter that is absent), then the body and the query      *)
(* where forwarded; the number and order of the parameter arguments do     *)
(* not depend on the values captured.                                      *)
(* The code breaks it: _.union removes duplicates, so that two parameters  *)
(* that capture equal strings yield one argument.                          *)
(***************************************************************************)
C9_OneArgumentPerParameter ==
  last.invoked = 1 =>
    last.args = <<Fn("success"), Fn("error")>> \o CapturesOfInvoked
                  \o Forwarded

\* the template has a wildcard
HasWildcard(route) == \E k \in 1..Len(route) : route[k] = "*"

(***************************************************************************)
(* C10.  A local dispatch whose path matches a registered template with a  *)
(* '*' wildcard (the earliest entry that matches) invokes the handler of   *)
(* that template, and the remainder of the path that the wildcard          *)
(* captured is among the arguments after success and error.                *)
(* The code breaks it: the capture has no key, so matchRoute calls         *)
(* params.push on the plain object sync passes, and a TypeError leaves     *)
(* sync.                                                                   *)
(***************************************************************************)
C10_WildcardDispatched ==
  (/\ LocalLookup
   /\ Matching # {}
   /\ HasWildcard(Entries[Earliest(Matching)].route))
    => LET e == Entries[Earliest(Matching)]
           caps == exec(e.regexp, last.path.v).caps
       IN /\ last.invoked = 1
          /\ last.handler = e.callback
          /\ \E k \in 3..Len(last.args) : last.args[k] = caps[Len(caps)]

\* the pattern of a template in the default mode of urlRegexp: not
\* sensitive, not strict
DefaultMode(route) == urlRegexp(route, FALSE, FALSE).regexp

(***************************************************************************)
(* C13.  The patterns bindRoutes compiles for local dispatch use the       *)
(* default matching mode, case-insensitive and with one optional trailing  *)
(* slash: the compiled pattern of every entry matches every dispatched     *)
(* path that the default-mode pattern of its template matches.             *)
(* The code breaks it: bindRoutes calls urlRegexp(route, keys, true,       *)
(* true), sensitive and strict.                                            *)
(***************************************************************************)
C13_LocalPatternsInDefaultMode ==
  LocalLookup =>
    \A j \in 1..Len(Entries) :
      exec(DefaultMode(Entries[j].route), last.path.v).ok => j \in Matching

\* the template ends in "/:name?"; Stem is what precedes that
OptionalTail(route) ==
  /\ Len(route) >= 4
  /\ route[Len(route)] = "?"
  /\ \E p \in 1..(Len(route) - 3) :
       /\ route[p] = "/" /\ route[p + 1] = ":"
       /\ \A q \in (p + 2)..(Len(route) - 1) : IsWord(route[q])

Stem(route) ==
  LET p == CHOOSE p \in 1..(Len(route) - 3) :
             /\ route[p] = "/" /\ route[p + 1] = ":"
             /\ \A q \in (p + 2)..(Len(route) - 1) : IsWord(route[q])
  IN SubSeq(route, 1, p - 1)

\* the params object matchRoute fills from entry j alone
ParamsOf(j) ==
  Extract(Entries[j].keys, exec(Entries[j].regexp, last.path.v).caps, 1,
          [matched |-> j, params |-> EmptyObject, thrown |-> FALSE]).params

(***************************************************************************)
(* C14.  For every template that ends in an optional parameter ':name?',   *)
(* a local dispatch of the path that omits that segment and the separator  *)
(* before it matches the template, and the value extracted for name is     *)
(* undefined; when that entry is the one chosen, undefined is the last     *)
(* argument of its handler.                                                *)
(***************************************************************************)
C14_OptionalTailMayBeOmitted ==
  LocalLookup =>
    \A j \in 1..Len(Entries) :
      (OptionalTail(Entries[j].route) /\ last.path.v = Stem(Entries[j].route))
        => /\ j \in Matching
           /\ LET named == ParamsOf(j).named
                  keys == Entries[j].keys
              IN /\ keys # <<>>
                 /\ keys[Len(keys)].optional
                 /\ named # <<>>
                 /\ named[Len(named)] =
                      [name |-> keys[Len(keys)].name, val |-> Undefined]
           /\ last.handler = Entries[j].callback =>
                last.args[Len(last.args)] = Undefined

\* '/c/:i?' is dispatched with '/c' and its handler is invoked
C14_Witness ==
  /\ LocalLookup
  /\ last.invoked = 1
  /\ OptionalTail(Entries[last.handler[2]].route)
  /\ last.path.v = Stem(Entries[last.handler[2]].route)
  /\ last.args[Len(last.args)] = Undefined

(***************************************************************************)
(* C16.  The parameters passed to the handler that a local dispatch        *)
(* chooses are the captures of the pattern of the chosen entry on the      *)
(* path: no capture of another entry examined during the scan is among     *)
(* the arguments.  (Values are compared as sets, so that the duplicates    *)
(* _.union removes, the subject of C9, make no difference.)                *)
(* The code breaks it: sync passes one params object to matchRoute, which  *)
(* stores the captures of every matching entry it passes in it.            *)
(***************************************************************************)
C16_OnlyCapturesOfChosenEntry ==
  (last.kind = "sync" /\ last.invoked = 1)
    => { last.args[k] : k \in 3..Len(last.args) }
         = { CapturesOfInvoked[k] : k \in 1..Len(CapturesOfInvoked) }

\* the handlers registered in the group of the last local dispatch
Registered == { Entries[j].callback : j \in 1..Len(Entries) }

(***************************************************************************)
(* C15.  Every local sync call either invokes exactly one registered       *)
(* handler exactly once, or fails (an Error leaves sync) without invoking  *)
(* any handler; it never invokes two handlers or one handler twice.        *)
(***************************************************************************)
C15_OneHandlerOnceOrFailure ==
  last.kind = "sync" =>
    \/ /\ last.invoked = 1
       /\ last.thrown = ""
       /\ last.handler \in Registered
    \/ /\ last.invoked = 0
       /\ last.thrown # ""
       /\ last.handler = NoHandler

\* two entries match the path and one handler is invoked
C15_Witness ==
  /\ LocalLookup
  /\ Cardinality(Matching) >= 2
  /\ last.invoked = 1
  /\ last.handler \in Registered

(***************************************************************************)
(* C17.  After bindRoutes has completed, no local sync call and no network *)
(* request, matching or not, succeeding or failing, changes the route      *)
(* table: the entries of every group, their order, patterns, key lists     *)
(* and handlers, and the routes bound to the network, stay as they are.    *)
(***************************************************************************)
C17_TableReadOnlyAfterBind ==
  [][phase = "bound" => (apiRoutes' = apiRoutes /\ app' = app)]_vars

\* a handler of a non-empty group has been invoked after bindRoutes
C17_Witness ==
  /\ phase = "bound"
  /\ last.kind = "sync"
  /\ last.invoked = 1
  /\ last.beh.end \in Throws
  /\ Len(apiRoutes[last.group]) >= 2

(***************************************************************************)
(* C11.  Dispatches in flight at the same time share no mutable state:     *)
(* for every interleaving of overlapping requests whose handlers finish    *)
(* asynchronously, the outcome of each handler (success, error or a        *)
(* rendered view) is sent on the response of the request that invoked      *)
(* that handler, never on the response of another request.                 *)
(* The code breaks it for rendered views: route stores the response in     *)
(* self.res, one property of the router shared by all requests, and        *)
(* render sends on whatever this.res is when it runs.                      *)
(***************************************************************************)
C11_OutcomeOnOwnResponse ==
  \A id \in Ids :
    reqs[id].kind \in {"api", "view"} =>
      \A k \in 1..Len(reqs[id].out) : reqs[id].out[k].res = id

\* what the response of a call of success or error has to be
Expected(c) ==
  IF c.f = "success"
  THEN [status |-> IF c.code = Undefined THEN "200" ELSE c.code.v[1],
        body |-> c.arg]
  ELSE [status |-> IF c.arg \in {Err("failure", <<"404">>),
                                 Err("thrown", <<"404">>)}
                   THEN "404" ELSE "500",
        body |-> Undefined]

(***************************************************************************)
(* C12.  On the network path every call success(result, statusCode) sends  *)
(* a response with the status code given, 200 when none is given, and      *)
(* result as the body; every call error(err) sends a response with the     *)
(* status err.httpStatusCode when err has that property and 500            *)
(* otherwise, without body.                                                *)
(***************************************************************************)
C12_ContinuationsToResponses ==
  \A id \in Ids :
    reqs[id].kind = "api" =>
      \A k \in 1..Len(reqs[id].out) :
        /\ reqs[id].out[k].res = id
        /\ reqs[id].out[k].sent = <<Expected(reqs[id].out[k].call)>>

\* a handler has called success(result, 201) from the event loop
C12_Witness ==
  \E id \in Ids :
    /\ reqs[id].kind = "api"
    /\ \E k \in 1..Len(reqs[id].out) :
         /\ reqs[id].out[k].call.f = "success"
         /\ reqs[id].out[k].call.code = Num("201")
         /\ reqs[id].out[k].late
         /\ reqs[id].out[k].sent[1].status = "201"

(***************************************************************************)
(* C18.  In a local sync call the callbacks of the caller are the          *)
(* continuation pair: each call success(result) of the handler, made       *)
(* while sync is on the stack or later, causes exactly one call            *)
(* options.success(result) and none of options.error, and each call        *)
(* error(err) exactly one call options.error(err) and none of              *)
(* options.success; sync returns without waiting for either (calls are     *)
(* made after it has returned).                                            *)
(***************************************************************************)
C18_CallbacksAreTheContinuations ==
  \A id \in Ids :
    (reqs[id].kind = "sync" /\ reqs[id].callbacks) =>
      \A k \in 1..Len(reqs[id].out) :
        reqs[id].out[k].sent =
          <<[f |-> reqs[id].out[k].call.f, arg |-> reqs[id].out[k].call.arg]>>

\* sync has returned, and the handler then called error: options.error
\* was called with the same object
C18_Witness ==
  \E id \in Ids :
    /\ reqs[id].kind = "sync"
    /\ reqs[id].callbacks
    /\ running = 0
    /\ Len(reqs[id].out) >= 1
    /\ reqs[id].out[1].late
    /\ reqs[id].out[1].call.f = "error"
    /\ reqs[id].out[1].sent = <<[f |-> "error", arg |-> Failure]>>

====
